---- MODULE Spec2Model ----
(***************************************************************************)
(* Model of the block import task, src/src/service/block_import_task.rs.   *)
(*                                                                         *)
(* The actor (run_block_import_task) drains the command channel one        *)
(* command at a time.  A verified block advances the in-memory state and   *)
(* spawns a database task; database tasks are chained by oneshot channels. *)
(*                                                                         *)
(* Option<T> is modelled as a sequence: <<>> is None, <<x>> is Some(x).    *)
(* Byte strings are sequences of small naturals.                           *)
(***************************************************************************)
EXTENDS Naturals, Sequences, FiniteSets, TLC

\* ------------------------------------------------------------------ bounds

\* Number of commands the callers send over the whole run.
MaxCmds == 3

\* ------------------------------------------------------------ input domains

None == <<>>
Some(x) == <<x>>

\* b":code"
CodeKey == <<3>>
\* Storage keys the verifier's diffs may touch.
Keys == {<<1>>, <<1, 2>>, CodeKey}

\* -------------------------------------------------- headers (crate::header)

\* A well-formed encoded header is <<parent_hash, number>>; anything else
\* fails to decode.
DecodeOk(bytes) == Len(bytes) = 2
Decode(bytes) == [parent_hash |-> bytes[1], number |-> bytes[2]]
\* header::hash_from_scale_encoded_header: injective on well-formed headers.
HashOf(bytes) == bytes[1] * (MaxCmds + 2) + bytes[2] + 1

\* Header of the database's best block at startup, and a header that some
\* other writer of the database may make the best block.
InitHeader == <<0, 0>>
ForeignHeader == <<0, MaxCmds + 1>>
\* A truncated header.
BadHeader == <<0>>

\* Top-level storage of the database's best block at startup.
InitStorage == (CodeKey :> 1)

\* executor::WasmVmPrototype::new(code): the runtime built from a code blob.
\* build tells runtime objects apart: it is the id of the command for which
\* the object was built.
NewRuntime(code, n) == [code |-> code, build |-> n]
\* verify_block hands the runtime it was given back as parent_runtime.
ReturnedRuntime(rt) == rt
\* calculate_root::CalculationCache::empty(), and the cache a successful
\* verification of the block with hash h returns.
EmptyTrieCache == [valid_for |-> 0]
TrieCacheOf(h) == [valid_for |-> h]

VARIABLES
    \* the actor's locals
    wasm_blob_cache,
    top_trie_root_calculation_cache,
    local_storage_cache,
    previous_block_database_import_finished,
    best_block_hash,
    best_block_header,
    \* where the actor is: "recv", "verifying", "returned", "panicked"
    actorPc,
    \* the Import command under verification, with what was handed to
    \* verify_block and the in-memory state as it was when the command arrived
    cur,
    \* number of commands the callers have sent (command ids are 1..sent)
    sent,
    \* cmds[c]: command c as sent
    cmds,
    \* replies[c]: what was sent on command c's send_back, in order
    replies,
    \* commands whose send_back was dropped without a reply
    canceled,
    \* the spawned database tasks, in spawn order
    steps,
    \* database: hash of the best block
    dbBest,
    \* database: hashes of the blocks insert_new_best has inserted, in order
    dbLog,
    \* database: header hashes of the insert_new_best calls issued, in order
    dbCalls

vars == <<wasm_blob_cache, top_trie_root_calculation_cache, local_storage_cache,
          previous_block_database_import_finished, best_block_hash,
          best_block_header, actorPc, cur, sent, cmds, replies, canceled,
          steps, dbBest, dbLog, dbCalls>>

actorVars == <<wasm_blob_cache, top_trie_root_calculation_cache,
               local_storage_cache, previous_block_database_import_finished,
               best_block_hash, best_block_header, actorPc, cur>>
memVars == <<wasm_blob_cache, top_trie_root_calculation_cache,
             local_storage_cache, best_block_hash, best_block_header>>
dbVars == <<dbBest, dbLog, dbCalls>>

\* ------------------------------------------------------------------- Init

\* Lines 79-123: the locals after startup, loaded from the database.
Init ==
    /\ wasm_blob_cache = None
    /\ top_trie_root_calculation_cache = Some(EmptyTrieCache)
    /\ local_storage_cache = InitStorage
    /\ previous_block_database_import_finished = None
    /\ best_block_hash = HashOf(InitHeader)
    /\ best_block_header = InitHeader
    /\ actorPc = "recv"
    /\ cur = None
    /\ sent = 0
    /\ cmds = <<>>
    /\ replies = <<>>
    /\ canceled = {}
    /\ steps = <<>>
    /\ dbBest = HashOf(InitHeader)
    /\ dbLog = <<>>
    /\ dbCalls = <<>>

\* ---------------------------------------------------------------- callers

\* The headers a caller may send now: a truncated one, a child of the
\* current head, and a child of the startup head.
Headers ==
    {BadHeader,
     <<best_block_hash, Decode(best_block_header).number + 1>>,
     <<HashOf(InitHeader), Decode(InitHeader).number + 1>>}

\* Block bodies a caller may send with header h: one extrinsic, which
\* differs from block to block.
Bodies(h) == {<<h>>}

BestBlockNumberCmd == [kind |-> "BestBlockNumber", header |-> <<>>, body |-> <<>>]
ImportCmd(h, b) == [kind |-> "Import", header |-> h, body |-> b]

ActorAlive == actorPc \in {"recv", "verifying"}

\* The database tasks whose oneshot sender has sent or has been dropped.
EndedPcs == {"done", "obsolete", "panicked"}

\* Faulty variant of ActorReady: the loop also waits for every database task
\* to have ended.
ActorReadyWaitsForDb ==
    /\ actorPc = "recv"
    /\ \A i \in DOMAIN steps : steps[i].pc \in EndedPcs
\* Line 126: the loop waits on the command channel and on nothing else.
ActorReady == actorPc = "recv"

\* Line 126: the actor is at to_block_import.next() and command c arrives;
\* it gets the next command id.
Receive(c) ==
    /\ ActorReady
    /\ sent < MaxCmds
    /\ sent' = sent + 1
    /\ cmds' = Append(cmds, c)

\* The command just received is answered with r / is left unanswered.
ReplyNew(r) == replies' = Append(replies, <<r>>)
NoReplyYet == replies' = Append(replies, <<>>)

\* An earlier command c is answered with r.
Reply(c, r) == replies' = [replies EXCEPT ![c] = Append(@, r)]

\* A caller sends after the actor has ended: the receiver is gone, the
\* command is never received and its send_back is dropped.
SendClosed ==
    /\ sent < MaxCmds
    /\ ~ActorAlive
    /\ sent' = sent + 1
    /\ \E h \in Headers : \E b \in Bodies(h) :
         cmds' \in {Append(cmds, BestBlockNumberCmd), Append(cmds, ImportCmd(h, b))}
    /\ NoReplyYet
    /\ canceled' = canceled \cup {sent + 1}
    /\ UNCHANGED <<actorVars, steps, dbVars>>

\* ------------------------------------------------------------ the verifier

\* The diffs (storage_top_trie_changes) a successful verification may return:
\* each touched key maps to Some(value) or to None (delete).  One inserts a
\* key, one deletes that key, inserts another and replaces the code, one
\* deletes the code.
Diffs ==
    { (<<1>> :> Some(1)),
      (<<1>> :> None) @@ (<<1, 2>> :> Some(2)) @@ (CodeKey :> Some(2)),
      (CodeKey :> None) }

\* Faulty variant of ApplyEntry: a None entry does not remove the key.
ApplyEntryKeepsDeleted(m, k, v) ==
    IF v # None
      THEN [x \in DOMAIN m \cup {k} |-> IF x = k THEN v[1] ELSE m[x]]
      ELSE m
\* Lines 245-251: one entry of the diff applied to the storage cache.
ApplyEntry(m, k, v) ==
    IF v # None
      THEN [x \in DOMAIN m \cup {k} |-> IF x = k THEN v[1] ELSE m[x]]
      ELSE [x \in DOMAIN m \ {k} |-> m[x]]

\* Lines 245-251: the loop over the entries of the diff.
RECURSIVE ApplyKeys(_, _, _)
ApplyKeys(m, d, ks) ==
    IF ks = {} THEN m
    ELSE LET k == CHOOSE x \in ks : TRUE
         IN ApplyKeys(ApplyEntry(m, k, d[k]), d, ks \ {k})

ApplyDiff(m, d) == ApplyKeys(m, d, DOMAIN d)

\* ------------------------------------------------------------------ actor

\* Lines 128-130.
BestBlockNumber ==
    /\ Receive(BestBlockNumberCmd)
    /\ ReplyNew([type |-> "BestBlockNumber",
                 number |-> Decode(best_block_header).number])
    /\ UNCHANGED <<actorVars, canceled, steps, dbVars>>

\* Lines 137-143: the header does not decode; the task function returns.
ImportInvalidHeader ==
    /\ \E h \in Headers : \E b \in Bodies(h) :
         /\ ~DecodeOk(h)
         /\ Receive(ImportCmd(h, b))
    /\ ReplyNew([type |-> "InvalidHeader"])
    /\ actorPc' = "returned"
    /\ UNCHANGED <<memVars, previous_block_database_import_finished, cur,
                   canceled, steps, dbVars>>

\* Faulty variant of Rejection: the reply carries the block's parent hash.
RejectionEchoesParent(h) ==
    [type |-> "ParentIsntBest", current_best_hash |-> Decode(h).parent_hash]
\* Lines 147-149: the reply to a block whose parent is not the head.
Rejection(h) ==
    [type |-> "ParentIsntBest", current_best_hash |-> best_block_hash]

\* Lines 145-151.
ImportParentIsntBest ==
    /\ \E h \in Headers : \E b \in Bodies(h) :
         /\ DecodeOk(h)
         /\ best_block_hash # Decode(h).parent_hash
         /\ Receive(ImportCmd(h, b))
         /\ ReplyNew(Rejection(h))
    /\ UNCHANGED <<actorVars, canceled, steps, dbVars>>

\* ------------------------------------------- the parent storage accessors

\* Ord for Vec<u8>, the order of the BTreeMap's keys: a < b.
LexLess(a, b) ==
    \/ \E n \in 1..Len(b) :
          /\ n <= Len(a)
          /\ a[n] < b[n]
          /\ \A j \in 1..(n - 1) : a[j] = b[j]
    \/ /\ Len(a) < Len(b)
       /\ \A j \in 1..Len(a) : a[j] = b[j]

\* <[u8]>::starts_with.
StartsWith(k, prefix) ==
    /\ Len(prefix) <= Len(k)
    /\ \A j \in 1..Len(prefix) : k[j] = prefix[j]

\* The keys of a BTreeMap in iteration order, smallest first.
RECURSIVE InOrder(_)
InOrder(ks) ==
    IF ks = {} THEN <<>>
    ELSE LET least == CHOOSE x \in ks : \A y \in ks \ {x} : LexLess(x, y)
         IN <<least>> \o InOrder(ks \ {least})

\* BTreeMap::range(from..) and range((Excluded(from), Unbounded)), as keys.
RangeIncluded(from) ==
    SelectSeq(InOrder(DOMAIN local_storage_cache), LAMBDA k : ~LexLess(k, from))
RangeExcluded(from) ==
    SelectSeq(InOrder(DOMAIN local_storage_cache), LAMBDA k : LexLess(from, k))

\* Iterator::take_while(|(k, _)| k.starts_with(&prefix)).
RECURSIVE TakeWhileStartsWith(_, _)
TakeWhileStartsWith(q, prefix) ==
    IF q = <<>> \/ ~StartsWith(Head(q), prefix) THEN <<>>
    ELSE <<Head(q)>> \o TakeWhileStartsWith(Tail(q), prefix)

\* Lines 175-182.
parent_storage_get(key) ==
    IF key \in DOMAIN local_storage_cache
      THEN Some(local_storage_cache[key])
      ELSE None

\* Lines 183-194.
parent_storage_keys_prefix(prefix) ==
    TakeWhileStartsWith(RangeIncluded(prefix), prefix)

\* Faulty variant of parent_storage_next_key: the range starts at the key
\* itself (Included instead of Excluded).
parent_storage_next_key_included(key) ==
    IF RangeIncluded(key) = <<>> THEN None ELSE Some(Head(RangeIncluded(key)))
\* Lines 195-214.
parent_storage_next_key(key) ==
    IF RangeExcluded(key) = <<>> THEN None ELSE Some(Head(RangeExcluded(key)))

\* The keys and prefixes the verifier may ask for.
QueryBytes == 0..4
Queries ==
    {<<>>} \cup {<<a>> : a \in QueryBytes} \cup {<<a, b>> : a, b \in QueryBytes}

\* Lines 155-160: is there a runtime for the head, cached or buildable.
HasRuntime == wasm_blob_cache # None \/ CodeKey \in DOMAIN local_storage_cache

\* Faulty variant of RuntimeForHead: a runtime is built for every import.
RuntimeForHeadRebuilds ==
    IF CodeKey \in DOMAIN local_storage_cache
      THEN NewRuntime(local_storage_cache[CodeKey], sent + 1)
      ELSE wasm_blob_cache[1]
\* Lines 155-160: the cached runtime, or one built from the :code entry.
RuntimeForHead ==
    IF wasm_blob_cache # None THEN wasm_blob_cache[1]
    ELSE NewRuntime(local_storage_cache[CodeKey], sent + 1)

\* Faulty variant of TrieCacheLeft: the cache is cloned, not taken.
TrieCacheLeftCloned == top_trie_root_calculation_cache
\* Line 215: what take() leaves in top_trie_root_calculation_cache.
TrieCacheLeft == None

\* Lines 145-217: the block is admitted; both caches are taken and
\* verify_block is awaited.
ImportAdmit ==
    /\ HasRuntime
    /\ \E h \in Headers : \E b \in Bodies(h) :
         /\ DecodeOk(h)
         /\ best_block_hash = Decode(h).parent_hash
         /\ Receive(ImportCmd(h, b))
         /\ cur' = Some([id |-> sent + 1, header |-> h, body |-> b,
                         runtime |-> RuntimeForHead,
                         trie |-> top_trie_root_calculation_cache,
                         before |-> memVars])
    /\ wasm_blob_cache' = None
    /\ top_trie_root_calculation_cache' = TrieCacheLeft
    /\ actorPc' = "verifying"
    /\ NoReplyYet
    /\ UNCHANGED <<local_storage_cache, previous_block_database_import_finished,
                   best_block_hash, best_block_header, canceled, steps, dbVars>>

\* Line 158: no cached runtime and no :code entry; the unwrap panics and
\* the command's send_back is dropped.
ImportNoCode ==
    /\ ~HasRuntime
    /\ \E h \in Headers : \E b \in Bodies(h) :
         /\ DecodeOk(h)
         /\ best_block_hash = Decode(h).parent_hash
         /\ Receive(ImportCmd(h, b))
    /\ actorPc' = "panicked"
    /\ NoReplyYet
    /\ canceled' = canceled \cup {sent + 1}
    /\ UNCHANGED <<memVars, previous_block_database_import_finished, cur,
                   steps, dbVars>>

\* Faulty variant of VerifyFail: the head is advanced although the
\* verification failed.
VerifyFailAdvancesHead ==
    /\ actorPc = "verifying"
    /\ top_trie_root_calculation_cache = None
    /\ Reply(cur[1].id, [type |-> "VerificationFailed"])
    /\ best_block_hash' = HashOf(cur[1].header)
    /\ best_block_header' = cur[1].header
    /\ cur' = None
    /\ actorPc' = "recv"
    /\ UNCHANGED <<wasm_blob_cache, top_trie_root_calculation_cache,
                   local_storage_cache, previous_block_database_import_finished,
                   sent, cmds, canceled, steps, dbVars>>
\* Lines 222-229: verify_block returned an error.
VerifyFail ==
    /\ actorPc = "verifying"
    /\ top_trie_root_calculation_cache = None
    /\ Reply(cur[1].id, [type |-> "VerificationFailed"])
    /\ cur' = None
    /\ actorPc' = "recv"
    /\ UNCHANGED <<memVars, previous_block_database_import_finished,
                   sent, cmds, canceled, steps, dbVars>>

\* Faulty variant of AdvancedHead: the head is left for the database task to
\* advance.
AdvancedHeadStays(c) == <<best_block_hash, best_block_header>>
\* Lines 253-255: the head after block c has been verified, <<hash, header>>.
AdvancedHead(c) == <<HashOf(c.header), c.header>>

\* Faulty variant of NewStep: the receiver of the previous task's channel is
\* not handed to the new task.
NewStepUnchained(c, diff) ==
    [pc |-> "waiting",
     current_best_hash |-> best_block_hash,
     header |-> c.header,
     body |-> c.body,
     diff |-> diff,
     id |-> c.id,
     previous_block_db_import |-> None,
     result |-> None]
\* Faulty variant of NewStep: the expected head is the database's best block
\* at the time the task is spawned.
NewStepExpectsDbHead(c, diff) ==
    [pc |-> "waiting",
     current_best_hash |-> dbBest,
     header |-> c.header,
     body |-> c.body,
     diff |-> diff,
     id |-> c.id,
     previous_block_db_import |-> previous_block_database_import_finished,
     result |-> None]
\* Faulty variant of NewStep: current_best_hash is read after the head has
\* been advanced.
NewStepExpectsNewHead(c, diff) ==
    [pc |-> "waiting",
     current_best_hash |-> HashOf(c.header),
     header |-> c.header,
     body |-> c.body,
     diff |-> diff,
     id |-> c.id,
     previous_block_db_import |-> previous_block_database_import_finished,
     result |-> None]
\* Lines 258-266: the database task as spawned.
NewStep(c, diff) ==
    [pc |-> "waiting",
     current_best_hash |-> best_block_hash,
     header |-> c.header,
     body |-> c.body,
     diff |-> diff,
     id |-> c.id,
     previous_block_db_import |-> previous_block_database_import_finished,
     result |-> None]

\* Faulty variant of TouchesCode: the runtime is put back whatever the diff.
TouchesCodeNever(diff) == FALSE
\* Line 239: storage_top_trie_changes.contains_key(":code").
TouchesCode(diff) == CodeKey \in DOMAIN diff

\* Lines 231-309: verify_block returned Ok with this diff.
VerifyOk ==
    /\ actorPc = "verifying"
    /\ \E diff \in Diffs :
         /\ top_trie_root_calculation_cache' = Some(TrieCacheOf(HashOf(cur[1].header)))
         /\ wasm_blob_cache' = IF ~TouchesCode(diff)
                                 THEN Some(ReturnedRuntime(cur[1].runtime))
                                 ELSE wasm_blob_cache
         /\ local_storage_cache' = ApplyDiff(local_storage_cache, diff)
         /\ steps' = Append(steps, NewStep(cur[1], diff))
    /\ best_block_hash' = AdvancedHead(cur[1])[1]
    /\ best_block_header' = AdvancedHead(cur[1])[2]
    /\ previous_block_database_import_finished' = Some(Len(steps) + 1)
    /\ cur' = None
    /\ actorPc' = "recv"
    /\ UNCHANGED <<sent, cmds, replies, canceled, dbVars>>

\* --------------------------------------------------------- database tasks

\* Faulty variants of Resolved: the wait is skipped; the receiver resolves
\* only when the sender has sent (line 307), not when it is dropped.
ResolvedAtOnce(j) == TRUE
ResolvedOnlyBySend(j) == steps[j].pc = "done"
\* Lines 268-270, 293, 296, 307: the receiver of task j's oneshot channel
\* resolves once the sender has sent or has been dropped.
Resolved(j) == steps[j].pc \in EndedPcs

\* Lines 268-272: the wait for the previous task is over and
\* insert_new_best is called.
StepAwait(i) ==
    /\ i \in DOMAIN steps
    /\ steps[i].pc = "waiting"
    /\ IF steps[i].previous_block_db_import # None
         THEN Resolved(steps[i].previous_block_db_import[1])
         ELSE TRUE
    /\ steps' = [steps EXCEPT ![i].pc = "writing"]
    /\ dbCalls' = Append(dbCalls, HashOf(steps[i].header))
    /\ UNCHANGED <<actorVars, sent, cmds, replies, canceled, dbBest, dbLog>>

\* database::Database::insert_new_best: what the call may return.
InsertOutcomes(expected) ==
    {"Access"} \cup (IF dbBest = expected THEN {"Ok"} ELSE {"ObsoleteCurrentHead"})

\* Lines 272-280: insert_new_best returns r to task i.
InsertReturns(i, r) ==
    /\ steps' = [steps EXCEPT ![i].pc = "returned", ![i].result = Some(r)]
    /\ IF r = "Ok"
         THEN /\ dbBest' = HashOf(steps[i].header)
              /\ dbLog' = Append(dbLog, HashOf(steps[i].header))
         ELSE UNCHANGED <<dbBest, dbLog>>
    /\ UNCHANGED <<actorVars, sent, cmds, replies, canceled, dbCalls>>

\* Lines 272-280: insert_new_best returns.
StepInsert(i) ==
    /\ i \in DOMAIN steps
    /\ steps[i].pc = "writing"
    /\ \E r \in InsertOutcomes(steps[i].current_best_hash) : InsertReturns(i, r)

\* The same with a database that never fails to be accessed.
StepInsertNoFailure(i) ==
    /\ i \in DOMAIN steps
    /\ steps[i].pc = "writing"
    /\ \E r \in InsertOutcomes(steps[i].current_best_hash) \ {"Access"} :
         InsertReturns(i, r)

\* Faulty variant of MatchArm: the result of insert_new_best is ignored.
MatchArmIgnoresError(r) == "Ok"
\* Lines 282-298: the arm of the match that the result r selects.
MatchArm(r) == r

\* Faulty variant of ObsoleteReplyHash: the expected previous hash is sent.
ObsoleteReplyHashIsExpected(i) == steps[i].current_best_hash
\* Line 290: the hash sent back when the head was obsolete.
ObsoleteReplyHash(i) == dbBest

\* HashMap::keys().cloned().collect(): the keys of the map, each once, in
\* the map's iteration order.
RECURSIVE CollectKeys(_)
CollectKeys(ks) ==
    IF ks = {} THEN <<>>
    ELSE LET k == CHOOSE x \in ks : TRUE
         IN <<k>> \o CollectKeys(ks \ {k})

\* Faulty variant of ModifiedKeys: deleted keys are left out.
ModifiedKeysInsertedOnly(diff) ==
    CollectKeys({k \in DOMAIN diff : diff[k] # None})
\* Line 304: storage_top_trie_changes.keys().cloned().collect().
ModifiedKeys(diff) == CollectKeys(DOMAIN diff)

\* Faulty variant of StepFinish: on ObsoleteCurrentHead the in-memory head is
\* set back to the database's best block.
StepFinishResyncsHead(i) ==
    /\ i \in DOMAIN steps
    /\ steps[i].pc = "returned"
    /\ CASE MatchArm(steps[i].result[1]) = "Ok" ->
              /\ Reply(steps[i].id, [type |-> "ImportSuccess",
                                     scale_encoded_header |-> steps[i].header,
                                     body |-> steps[i].body,
                                     modified_keys |-> ModifiedKeys(steps[i].diff)])
              /\ steps' = [steps EXCEPT ![i].pc = "done"]
              /\ UNCHANGED <<canceled, best_block_hash>>
         [] MatchArm(steps[i].result[1]) = "ObsoleteCurrentHead" ->
              /\ Reply(steps[i].id, [type |-> "ParentIsntBest",
                                     current_best_hash |-> ObsoleteReplyHash(i)])
              /\ steps' = [steps EXCEPT ![i].pc = "obsolete"]
              /\ best_block_hash' = dbBest
              /\ UNCHANGED canceled
         [] OTHER ->
              /\ steps' = [steps EXCEPT ![i].pc = "panicked"]
              /\ canceled' = canceled \cup {steps[i].id}
              /\ UNCHANGED <<replies, best_block_hash>>
    /\ UNCHANGED <<wasm_blob_cache, top_trie_root_calculation_cache,
                   local_storage_cache, previous_block_database_import_finished,
                   best_block_header, actorPc, cur, sent, cmds, dbVars>>
\* Lines 282-307: the match on the result, the reply, and the end of the task.
StepFinish(i) ==
    /\ i \in DOMAIN steps
    /\ steps[i].pc = "returned"
    /\ CASE MatchArm(steps[i].result[1]) = "Ok" ->
              /\ Reply(steps[i].id, [type |-> "ImportSuccess",
                                     scale_encoded_header |-> steps[i].header,
                                     body |-> steps[i].body,
                                     modified_keys |-> ModifiedKeys(steps[i].diff)])
              /\ steps' = [steps EXCEPT ![i].pc = "done"]
              /\ UNCHANGED canceled
         [] MatchArm(steps[i].result[1]) = "ObsoleteCurrentHead" ->
              /\ Reply(steps[i].id, [type |-> "ParentIsntBest",
                                     current_best_hash |-> ObsoleteReplyHash(i)])
              /\ steps' = [steps EXCEPT ![i].pc = "obsolete"]
              /\ UNCHANGED canceled
         [] OTHER ->
              /\ steps' = [steps EXCEPT ![i].pc = "panicked"]
              /\ canceled' = canceled \cup {steps[i].id}
              /\ UNCHANGED replies
    /\ UNCHANGED <<actorVars, sent, cmds, dbVars>>

\* Another writer of the shared database changes its best block: to a block
\* this actor never saw, or to one that a database task not yet written
\* expects as the head.
ExternalHeads ==
    {HashOf(ForeignHeader)}
    \cup {steps[i].current_best_hash :
            i \in {j \in DOMAIN steps : steps[j].pc \in {"waiting", "writing"}}}

ExternalWrite ==
    /\ \E h \in ExternalHeads \ {dbBest} : dbBest' = h
    /\ UNCHANGED <<actorVars, sent, cmds, replies, canceled, steps, dbLog, dbCalls>>

\* ------------------------------------------------------------------- Next

\* The database tasks the bounded run can spawn.
StepIds == 1..MaxCmds

AwaitStep == \E i \in StepIds : StepAwait(i)
InsertStep == \E i \in StepIds : StepInsert(i)
FinishStep == \E i \in StepIds : StepFinish(i)

Next ==
    \/ SendClosed
    \/ BestBlockNumber
    \/ ImportInvalidHeader
    \/ ImportParentIsntBest
    \/ ImportAdmit
    \/ ImportNoCode
    \/ VerifyFail
    \/ VerifyOk
    \/ AwaitStep
    \/ InsertStep
    \/ FinishStep
    \/ ExternalWrite

Spec == Init /\ [][Next]_vars

\* The executor polls a spawned database task that can run: a task whose
\* wait is over is eventually resumed.
\* The actor alone with its database: no other writer of the best block and
\* no access failure.
InsertStepNoFailure == \E i \in StepIds : StepInsertNoFailure(i)

ClosedNext ==
    \/ SendClosed
    \/ BestBlockNumber
    \/ ImportInvalidHeader
    \/ ImportParentIsntBest
    \/ ImportAdmit
    \/ ImportNoCode
    \/ VerifyFail
    \/ VerifyOk
    \/ AwaitStep
    \/ InsertStepNoFailure
    \/ FinishStep

ClosedSpec == Init /\ [][ClosedNext]_vars

Fairness == \A i \in StepIds : WF_vars(StepAwait(i))

FairSpec == Spec /\ Fairness
\* ----------------------------------------------------------- properties

Last(q) == q[Len(q)]

\* Command c has been answered with a reply of type t.
Answered(c, t) == replies[c] # <<>> /\ replies[c][1].type = t

\* This step is the actor receiving an Import command (the new command is
\* cmds'[sent']).
ImportArrives ==
    /\ sent' = sent + 1
    /\ actorPc = "recv"
    /\ cmds'[sent'].kind = "Import"

\* This step is the end of a verification that failed.
VerificationFails ==
    /\ actorPc = "verifying"
    /\ actorPc' = "recv"
    /\ Len(steps') = Len(steps)

\* This step is the end of a verification that succeeded.
VerificationSucceeds ==
    /\ actorPc = "verifying"
    /\ Len(steps') = Len(steps) + 1

\* The pcs of a database task whose insert_new_best call has returned.
ReturnedPcs == {"returned"} \cup EndedPcs

(* C1: the insert_new_best calls are issued in the order the blocks were    *)
(* accepted, and the call for a block is not issued before the call for    *)
(* the block accepted just before it has returned.                         *)
C1_WritesInAcceptanceOrder ==
    /\ Len(dbCalls) <= Len(steps)
    /\ \A k \in DOMAIN dbCalls : dbCalls[k] = HashOf(steps[k].header)
    /\ \A i \in DOMAIN steps :
         (i > 1 /\ steps[i].pc # "waiting") => steps[i - 1].pc \in ReturnedPcs

\* Two calls were issued, the second is still running, and a third block
\* was verified meanwhile.
C1_Witness ==
    /\ Len(steps) = 3
    /\ Len(dbCalls) = 2
    /\ steps[2].pc = "writing"
    /\ steps[3].pc = "waiting"

(* C2: an Import whose header fails to decode is answered InvalidHeader,   *)
(* leaves the storage cache, both caches and the head untouched, and the   *)
(* actor goes on to receive the next command.                              *)
C2_InvalidHeaderKeepsActorRunning ==
    [][(ImportArrives /\ ~DecodeOk(cmds'[sent'].header))
        => /\ replies'[sent'] = <<[type |-> "InvalidHeader"]>>
           /\ UNCHANGED memVars
           /\ actorPc' = "recv"]_vars

RejectedByActor(c) ==
    /\ Answered(c, "ParentIsntBest")
    /\ \A i \in DOMAIN steps : steps[i].id # c

(* C4: an Import whose parent is not the in-memory head is answered        *)
(* ParentIsntBest with the in-memory head's hash, starts no verification,  *)
(* spawns no database task and changes none of the actor's state; the same *)
(* import sent again right after gets the same reply.                      *)
C4_RejectionIsIdempotent ==
    /\ [][(/\ ImportArrives
           /\ DecodeOk(cmds'[sent'].header)
           /\ Decode(cmds'[sent'].header).parent_hash # best_block_hash)
          => /\ replies'[sent'] = <<[type |-> "ParentIsntBest",
                                     current_best_hash |-> best_block_hash]>>
             /\ UNCHANGED <<actorVars, steps>>]_vars
    /\ [](\A c \in 1..(sent - 1) :
            (RejectedByActor(c) /\ cmds[c + 1] = cmds[c])
                => replies[c + 1] = replies[c])

\* A block was imported, then the same block was sent and rejected twice.
C4_Witness ==
    /\ sent = 3
    /\ Len(steps) = 1
    /\ RejectedByActor(2)
    /\ cmds[3] = cmds[2]
    /\ replies[3] = <<[type |-> "ParentIsntBest", current_best_hash |-> best_block_hash]>>
    /\ replies[3] = replies[2]

\* The database tasks whose diff touches key k.
Touching(k) == {i \in DOMAIN steps : k \in DOMAIN steps[i].diff}
LastTouching(k) == CHOOSE i \in Touching(k) : \A j \in Touching(k) : j <= i

\* The startup storage with the accepted diffs replayed in acceptance order.
ReplayedStorage ==
    LET present(k) == IF Touching(k) = {} THEN k \in DOMAIN InitStorage
                      ELSE steps[LastTouching(k)].diff[k] # None
        value(k) == IF Touching(k) = {} THEN InitStorage[k]
                    ELSE steps[LastTouching(k)].diff[k][1]
    IN [k \in {x \in Keys : present(x)} |-> value(k)]

(* C5: the storage cache is the startup storage with the diffs of all      *)
(* accepted blocks applied in acceptance order, and the head is the last   *)
(* accepted block, whatever the state of the database tasks.               *)
C5_MirrorIsReplayOfDiffs ==
    /\ local_storage_cache = ReplayedStorage
    /\ best_block_hash = IF steps = <<>> THEN HashOf(InitHeader)
                         ELSE HashOf(Last(steps).header)

\* A key was inserted by one block and deleted by the next while no
\* database write had started.
C5_Witness ==
    /\ Len(steps) >= 2
    /\ \A i \in DOMAIN steps : steps[i].pc = "waiting"
    /\ <<1>> \in DOMAIN steps[1].diff
    /\ <<1>> \notin DOMAIN local_storage_cache
    /\ <<1, 2>> \in DOMAIN local_storage_cache

(* C6: a command gets at most one reply, and an ImportSuccess reply is for *)
(* a block whose insert_new_best has returned Ok.                          *)
C6_SuccessOnlyAfterCommit ==
    \A c \in 1..sent :
        /\ Len(replies[c]) <= 1
        /\ Answered(c, "ImportSuccess")
             => \E i \in DOMAIN steps :
                    /\ steps[i].id = c
                    /\ steps[i].result = Some("Ok")
                    /\ replies[c][1].scale_encoded_header = steps[i].header
                    /\ \E k \in DOMAIN dbLog : dbLog[k] = HashOf(steps[i].header)

\* One block was committed and answered while the next one's write failed.
C6_Witness ==
    /\ Len(steps) >= 2
    /\ Answered(steps[1].id, "ImportSuccess")
    /\ steps[2].pc \in {"obsolete", "panicked"}

(* C7: the actor never waits for a database task: whatever the tasks'      *)
(* states, it can take a BestBlockNumber query and an Import of a child of *)
(* the head when it is at the channel, and a running verification can end. *)
C7_ActorNeverWaitsForDb ==
    /\ (actorPc = "recv" /\ sent < MaxCmds)
         => /\ ENABLED BestBlockNumber
            /\ HasRuntime => ENABLED ImportAdmit
    /\ actorPc = "verifying" => (ENABLED VerifyOk /\ ENABLED VerifyFail)

\* The first write is in progress, a second block was verified and its task
\* waits, a query was answered after that, and the actor is ready again.
C7_Witness ==
    /\ Len(steps) = 2
    /\ steps[1].pc = "writing"
    /\ steps[2].pc = "waiting"
    /\ sent = steps[2].id + 1
    /\ Answered(sent, "BestBlockNumber")
    /\ actorPc = "recv"

(* C8: once a database task has ended, with success or with an obsolete    *)
(* head, the task spawned after it stops waiting and issues its own        *)
(* insert_new_best call.                                                   *)
C8_NextStepNotStalled ==
    \A i \in 1..(MaxCmds - 1) :
        (i + 1 \in DOMAIN steps /\ steps[i].pc \in {"done", "obsolete"})
            ~> (i + 1 \in DOMAIN steps /\ steps[i + 1].pc # "waiting")

\* A task ended on the obsolete-head branch and the next one went on.
C8_Witness ==
    /\ Len(steps) >= 2
    /\ steps[1].pc = "obsolete"
    /\ steps[2].pc # "waiting"

(* C9: the head advances when the verification succeeds, while the block's *)
(* database task has not started and its command is unanswered; a          *)
(* BestBlockNumber query is answered with the head's number and changes    *)
(* nothing; an Import whose parent is the parent of the last accepted      *)
(* block is answered ParentIsntBest with that block's hash.                *)
C9_HeadAdvancesAtVerification ==
    [][/\ VerificationSucceeds
          => /\ best_block_hash' = HashOf(cur[1].header)
             /\ best_block_header' = cur[1].header
             /\ Last(steps').pc = "waiting"
             /\ Last(steps').id = cur[1].id
             /\ replies'[cur[1].id] = <<>>
       /\ (sent' = sent + 1 /\ actorPc = "recv" /\ steps # <<>>
             /\ cmds'[sent'].kind = "BestBlockNumber")
          => /\ replies'[sent'] = <<[type |-> "BestBlockNumber",
                                     number |-> Decode(Last(steps).header).number]>>
             /\ UNCHANGED <<actorVars, steps, dbVars>>
       /\ (ImportArrives /\ steps # <<>>
             /\ DecodeOk(cmds'[sent'].header)
             /\ Decode(cmds'[sent'].header).parent_hash
                  = Decode(Last(steps).header).parent_hash)
          => replies'[sent'] = <<[type |-> "ParentIsntBest",
                                  current_best_hash |-> HashOf(Last(steps).header)]>>
      ]_vars

\* B1 was verified; the same import was rejected with B1's hash and a query
\* returned B1's number while B1's task had not started.
C9_Witness ==
    /\ Len(steps) = 1
    /\ steps[1].pc = "waiting"
    /\ replies[steps[1].id] = <<>>
    /\ sent = 3
    /\ replies[2] = <<[type |-> "ParentIsntBest",
                       current_best_hash |-> HashOf(steps[1].header)]>>
    /\ replies[3] = <<[type |-> "BestBlockNumber",
                       number |-> Decode(steps[1].header).number]>>

(* C10: a database task whose insert_new_best returned ObsoleteCurrentHead *)
(* answers ParentIsntBest with the database's best block hash as it is     *)
(* when the task reads it, and never answers ImportSuccess.                *)
C10_ObsoleteReplyCarriesDbHead ==
    [][\A i \in DOMAIN steps :
         /\ (steps[i].pc = "returned" /\ steps[i].result = Some("ObsoleteCurrentHead")
               /\ steps'[i].pc # "returned")
            => replies'[steps[i].id] = <<[type |-> "ParentIsntBest",
                                          current_best_hash |-> dbBest]>>
         /\ steps[i].result = Some("ObsoleteCurrentHead")
            => ~Answered(steps[i].id, "ImportSuccess")]_vars

\* The reply of an obsolete task carries a hash that is neither the hash the
\* task expected nor the in-memory head.
C10_Witness ==
    \E i \in DOMAIN steps :
        /\ steps[i].pc = "obsolete"
        /\ Answered(steps[i].id, "ParentIsntBest")
        /\ replies[steps[i].id][1].current_best_hash # steps[i].current_best_hash
        /\ replies[steps[i].id][1].current_best_hash # best_block_hash
(* C11: once insert_new_best has returned an access error and the task    *)
(* has panicked, no insert_new_best call is issued, no block is inserted   *)
(* and the actor admits no further import.                                 *)
C11_AccessFailureStopsWorker ==
    [][(\E i \in DOMAIN steps :
            steps[i].pc = "panicked" /\ steps[i].result = Some("Access"))
        => /\ dbCalls' = dbCalls
           /\ dbLog' = dbLog
           /\ ~(actorPc = "recv" /\ actorPc' = "verifying")]_vars

\* The actor admits an Import: verify_block is called.
Admission == actorPc = "recv" /\ actorPc' = "verifying"

(* C12: a successful import whose diff lacks :code leaves the runtime that *)
(* the verifier returned in wasm_blob_cache, one whose diff has :code      *)
(* (inserted or deleted) leaves it empty; nothing but an admission changes *)
(* the cache between commands; and the next admitted import uses the       *)
(* cached object if there is one, else a runtime newly built from the      *)
(* :code value of local_storage_cache.                                     *)
C12_RuntimeCacheAfterSuccess ==
    [][/\ VerificationSucceeds =>
            wasm_blob_cache' =
              IF CodeKey \in DOMAIN Last(steps').diff
                THEN None
                ELSE Some(ReturnedRuntime(cur[1].runtime))
       /\ (actorPc = "recv" /\ actorPc' # "verifying") =>
            wasm_blob_cache' = wasm_blob_cache
       /\ Admission =>
            cur'[1].runtime =
              IF wasm_blob_cache # None
                THEN wasm_blob_cache[1]
                ELSE [code |-> local_storage_cache[CodeKey],
                      build |-> cur'[1].id]]_vars

\* The first block replaced :code, so the second import built a runtime; the
\* second block left :code alone, and the third import runs on that object.
C12_Witness ==
    /\ actorPc = "verifying"
    /\ Len(steps) = 2
    /\ CodeKey \in DOMAIN steps[1].diff
    /\ CodeKey \notin DOMAIN steps[2].diff
    /\ cur[1].runtime = [code |-> local_storage_cache[CodeKey],
                         build |-> steps[2].id]

(* C13: every ImportSuccess reply lists in modified_keys exactly the keys  *)
(* of the diff the verifier returned for that block, inserted and deleted  *)
(* ones alike, each once, and carries the header and the body of the       *)
(* Import command it answers.                                              *)
C13_SuccessEchoesBlockAndKeys ==
    \A i \in DOMAIN steps :
        Answered(steps[i].id, "ImportSuccess") =>
            LET r == replies[steps[i].id][1]
                c == cmds[steps[i].id]
            IN /\ {r.modified_keys[n] : n \in DOMAIN r.modified_keys}
                    = DOMAIN steps[i].diff
               /\ Len(r.modified_keys) = Cardinality(DOMAIN steps[i].diff)
               /\ r.scale_encoded_header = c.header
               /\ r.body = c.body
               /\ c.kind = "Import"

\* A block that deleted one key and wrote two others was reported.
C13_Witness ==
    \E i \in DOMAIN steps :
        /\ Answered(steps[i].id, "ImportSuccess")
        /\ \E k \in DOMAIN steps[i].diff : steps[i].diff[k] = None
        /\ Cardinality(DOMAIN steps[i].diff) = 3
        /\ Len(replies[steps[i].id][1].modified_keys) = 3

\* A database task moves: its wait ends, insert_new_best returns, or it
\* replies and ends.
StepMoves ==
    /\ Len(steps') = Len(steps)
    /\ \E i \in DOMAIN steps : steps'[i] # steps[i]

(* C14: no move of a database task changes any local of the actor,         *)
(* whatever insert_new_best returned; while a task has ended with          *)
(* ObsoleteCurrentHead the head is still the last verified block and the   *)
(* storage cache still has every accepted diff applied; and an import is   *)
(* admitted only if its parent is the last verified block, committed or    *)
(* not.                                                                    *)
C14_OutcomeLeavesMemoryAlone ==
    /\ [][/\ StepMoves => UNCHANGED actorVars
          /\ (Admission /\ steps # <<>>) =>
                Decode(cur'[1].header).parent_hash = HashOf(Last(steps).header)]_vars
    /\ [](\A i \in DOMAIN steps :
            steps[i].pc = "obsolete" =>
                /\ best_block_hash = HashOf(Last(steps).header)
                /\ best_block_header = Last(steps).header
                /\ local_storage_cache = ReplayedStorage)

\* The only block was refused by the database, and its child is admitted.
C14_Witness ==
    /\ Len(steps) = 1
    /\ steps[1].pc = "obsolete"
    /\ dbBest # best_block_hash
    /\ actorPc = "verifying"
    /\ Decode(cur[1].header).parent_hash = HashOf(steps[1].header)

\* A trie cache that may be used on top of the block with hash h: none, the
\* empty one, or the one the verification of that very block returned.
TrieCacheFitsHead(c, h) ==
    \/ c = None
    \/ c = Some(EmptyTrieCache)
    \/ c = Some(TrieCacheOf(h))

(* C15: while a verification is in flight top_trie_root_calculation_cache  *)
(* is None, and the cache that was handed to the verifier is empty or is   *)
(* the one returned by the verification of the block's parent, the head;   *)
(* between commands a cache that is present is empty or belongs to the     *)
(* head; a failed verification leaves None, a successful one leaves the    *)
(* cache it returned, which is the one of the new head.                    *)
C15_TrieCacheIsNoneOrOfHead ==
    /\ [](/\ actorPc = "verifying" =>
               /\ top_trie_root_calculation_cache = None
               /\ TrieCacheFitsHead(cur[1].trie, best_block_hash)
               /\ best_block_hash = Decode(cur[1].header).parent_hash
          /\ actorPc = "recv" =>
               TrieCacheFitsHead(top_trie_root_calculation_cache, best_block_hash))
    /\ [][/\ VerificationFails => top_trie_root_calculation_cache' = None
          /\ VerificationSucceeds =>
               /\ top_trie_root_calculation_cache' # None
               /\ top_trie_root_calculation_cache'[1].valid_for
                    = HashOf(cur[1].header)
               /\ best_block_hash' = HashOf(cur[1].header)]_vars

\* A block is verified with the cache that its parent's verification
\* returned, after an earlier verification had failed and left no cache.
C15_Witness ==
    /\ actorPc = "verifying"
    /\ steps # <<>>
    /\ cur[1].trie = Some(TrieCacheOf(HashOf(Last(steps).header)))
    /\ \E c \in 1..sent : Answered(c, "VerificationFailed")

(* C16: whenever the actor is between commands and wasm_blob_cache holds a *)
(* runtime, local_storage_cache has a :code entry and the runtime was      *)
(* built from exactly that value.                                          *)
C16_CachedRuntimeMatchesCode ==
    (actorPc = "recv" /\ wasm_blob_cache # None) =>
        /\ CodeKey \in DOMAIN local_storage_cache
        /\ wasm_blob_cache[1].code = local_storage_cache[CodeKey]

\* The code was replaced by the first block; the runtime cached after the
\* second block is the one of the new code.
C16_Witness ==
    /\ actorPc = "recv"
    /\ wasm_blob_cache # None
    /\ Len(steps) = 2
    /\ CodeKey \in DOMAIN steps[1].diff
    /\ wasm_blob_cache[1].code # InitStorage[CodeKey]

\* The database tasks that are past their wait and have not ended: inside
\* insert_new_best, or between its return and the end of the task.
PastWait == {i \in DOMAIN steps : steps[i].pc \in {"writing", "returned"}}

(* C17: at most one database task at a time is past its wait for the       *)
(* previous task and has not yet ended; in particular no two tasks are     *)
(* inside insert_new_best together, and all tasks spawned later are still  *)
(* waiting.                                                                *)
C17_OneWriterAtATime ==
    /\ Cardinality(PastWait) <= 1
    /\ \A i \in PastWait, j \in DOMAIN steps : j > i => steps[j].pc = "waiting"

\* Three tasks are spawned: one is inside insert_new_best and the two
\* behind it wait.
C17_Witness ==
    /\ Len(steps) = 3
    /\ steps[1].pc = "writing"
    /\ steps[2].pc = "waiting"
    /\ steps[3].pc = "waiting"

\* The elements of a sequence.
Elems(q) == {q[n] : n \in DOMAIN q}

(* C18: while verify_block runs, local_storage_cache is what it was when   *)
(* the command arrived, and for every key or prefix the verifier asks for: *)
(* the point lookup gives the cache's value for the key, or None; the      *)
(* prefix enumeration gives exactly the cache's keys that start with the   *)
(* prefix, each once (all keys for the empty prefix); the next-key query   *)
(* gives the smallest key of the cache that is strictly greater than the   *)
(* given key in byte-lexicographic order, or None if there is none.        *)
C18_AccessorsReadTheMirror ==
    actorPc = "verifying" =>
        /\ local_storage_cache = cur[1].before[3]
        /\ \A q \in Queries :
             LET m == local_storage_cache
                 greater == {k \in DOMAIN m : LexLess(q, k)}
                 listed == parent_storage_keys_prefix(q)
                 next == parent_storage_next_key(q)
             IN /\ q \in DOMAIN m => parent_storage_get(q) = Some(m[q])
                /\ q \notin DOMAIN m => parent_storage_get(q) = None
                /\ Elems(listed) = {k \in DOMAIN m : StartsWith(k, q)}
                /\ Len(listed) = Cardinality(Elems(listed))
                /\ q = <<>> => Elems(listed) = DOMAIN m
                /\ greater = {} => next = None
                /\ greater # {} =>
                     /\ next # None
                     /\ next[1] \in greater
                     /\ \A k \in greater \ {next[1]} : LexLess(next[1], k)

\* A verification runs on a mirror in which one key is a prefix of another.
C18_Witness ==
    /\ actorPc = "verifying"
    /\ DOMAIN local_storage_cache = {<<1>>, <<1, 2>>, CodeKey}
    /\ parent_storage_get(<<1, 2>>) = Some(2)
    /\ parent_storage_keys_prefix(<<1>>) = <<<<1>>, <<1, 2>>>>
    /\ parent_storage_next_key(<<1>>) = Some(<<1, 2>>)
    /\ parent_storage_next_key(<<1, 2>>) = Some(CodeKey)
    /\ parent_storage_next_key(CodeKey) = None

\* The database tasks whose insert_new_best returned Ok.
Committed == {i \in DOMAIN steps : steps[i].result = Some("Ok")}

(* C19 (when no other writer changes the database's best block and no      *)
(* access failure occurs): no database task gets ObsoleteCurrentHead; the  *)
(* hash a task expects is the database's best block while the task is     *)
(* inside insert_new_best; the committed tasks are the first ones spawned, *)
(* and the database's best block is the last committed block, or the       *)
(* startup block if there is none, hence the in-memory head or a block     *)
(* accepted before it.                                                     *)
C19_NoObsoleteWithoutOtherWriters ==
    /\ \A i \in DOMAIN steps :
         /\ steps[i].result # Some("ObsoleteCurrentHead")
         /\ steps[i].pc # "obsolete"
         /\ steps[i].pc = "writing" => steps[i].current_best_hash = dbBest
    /\ Committed = 1..Cardinality(Committed)
    /\ dbBest = IF Committed = {} THEN HashOf(InitHeader)
                ELSE HashOf(steps[Cardinality(Committed)].header)
    /\ \/ dbBest = best_block_hash
       \/ dbBest = HashOf(InitHeader)
       \/ \E i \in DOMAIN steps :
            i < Len(steps) /\ dbBest = HashOf(steps[i].header)

\* The first block is committed, the second is being written, the third
\* waits: the database is two blocks behind the in-memory head.
C19_Witness ==
    /\ Len(steps) = 3
    /\ steps[1].pc = "done"
    /\ steps[2].pc = "writing"
    /\ steps[3].pc = "waiting"
    /\ dbBest = HashOf(steps[1].header)
    /\ dbBest # best_block_hash

\* insert_new_best returns to task j, which was spawned after a task that
\* ended with ObsoleteCurrentHead, while the database's best block is not the
\* one task j expects.
LaterInsertOnOtherHead(j) ==
    /\ steps[j].pc = "writing"
    /\ steps'[j].pc = "returned"
    /\ \E i \in 1..(j - 1) : steps[i].pc = "obsolete"
    /\ dbBest # steps[j].current_best_hash

(* C20 as stated: once a task has ended with ObsoleteCurrentHead, every    *)
(* later task whose expected hash is not the database's best block gets    *)
(* ObsoleteCurrentHead from insert_new_best.                               *)
C20_LaterStepsAllObsolete ==
    [][\A j \in DOMAIN steps :
          LaterInsertOnOtherHead(j) =>
              steps'[j].result = Some("ObsoleteCurrentHead")]_vars

(* C20, amended: such a later task gets ObsoleteCurrentHead or an access   *)
(* error, never Ok; a task that got ObsoleteCurrentHead answers with       *)
(* ParentIsntBest and nothing else; every task expects the block accepted  *)
(* just before its own; and if a task commits after an earlier one ended   *)
(* with ObsoleteCurrentHead, then some task in between (or itself)         *)
(* committed on top of a block this actor never inserted, that is, the     *)
(* database's best block was made equal to its expected hash from outside. *)
C20_NoCommitAfterObsoleteUnaided ==
    /\ [][\A j \in DOMAIN steps :
             LaterInsertOnOtherHead(j) =>
                 /\ steps'[j].result \in {Some("ObsoleteCurrentHead"), Some("Access")}
                 /\ UNCHANGED <<dbBest, dbLog>>]_vars
    /\ [](/\ \A j \in DOMAIN steps :
               /\ j > 1 => steps[j].current_best_hash = HashOf(steps[j - 1].header)
               /\ steps[j].pc = "obsolete" =>
                    /\ replies[steps[j].id] # <<>>
                    /\ \A n \in DOMAIN replies[steps[j].id] :
                         replies[steps[j].id][n].type = "ParentIsntBest"
          /\ \A i, j \in DOMAIN steps :
               (/\ i < j
                /\ steps[i].result = Some("ObsoleteCurrentHead")
                /\ steps[j].result = Some("Ok")) =>
                   \E k \in (i + 1)..j :
                      /\ steps[k].result = Some("Ok")
                      /\ steps[k].current_best_hash \notin Elems(dbLog))

\* Two blocks in a row were refused by the database; then another writer
\* made the second one the best block, and the third block was committed.
C20_Witness ==
    /\ Len(steps) = 3
    /\ steps[1].pc = "obsolete"
    /\ steps[2].pc = "obsolete"
    /\ steps[3].pc = "done"
    /\ Answered(steps[2].id, "ParentIsntBest")
    /\ Answered(steps[3].id, "ImportSuccess")
====
